---- MODULE Spec2Model ----
(***************************************************************************)
(* A model of the djk-sample sports-club application:                      *)
(*   club_app/models.py  Profile, Manufacturer, Club, Equipment, Member    *)
(*                       with their constraints, Club.save and the display *)
(*                       methods,                                          *)
(*   djk_sample/urls.py  the construction of urlpatterns.                  *)
(* The tables are sets of rows.  Every operation (a save, a delete, the    *)
(* import of the URL configuration, the resolution of a request path) is   *)
(* one action.                                                             *)
(***************************************************************************)
EXTENDS Integers, Sequences, FiniteSets, TLC

VARIABLES
    clock,          \* the wall clock read by timezone.now(), in ticks
    clubs,          \* table club_app_club
    profiles,       \* table club_app_profile
    manufacturers,  \* table club_app_manufacturer
    equipments,     \* table club_app_equipment
    members,        \* table club_app_member
    last,           \* the last model operation: what was asked and its outcome
    DEBUG,          \* settings.DEBUG
    STATIC_URL,     \* settings.STATIC_URL
    urlpatterns,    \* djk_sample.urls.urlpatterns, a sequence of routes
    pc,             \* position of the import of djk_sample/urls.py
    resolved        \* the last request path and the route it resolved to

dbvars == <<clock, clubs, profiles, manufacturers, equipments, members, last>>
urlvars == <<DEBUG, STATIC_URL, urlpatterns, pc, resolved>>
vars == <<clock, clubs, profiles, manufacturers, equipments, members, last,
          DEBUG, STATIC_URL, urlpatterns, pc, resolved>>

(***************************************************************************)
(* Bounds of the model.                                                    *)
(***************************************************************************)
MaxPk == 2          \* primary keys are drawn from 1..MaxPk
MaxClock == 2       \* the clock stops at MaxClock ticks
TicksPerDay == 2    \* clock ticks in one calendar day

Pks == 1 .. MaxPk

(***************************************************************************)
(* Field values of an instance in memory.  A field holds None, a date or a *)
(* datetime; the table columns hold plain day numbers (DateField) and      *)
(* plain ticks (DateTimeField).                                            *)
(***************************************************************************)
NoPk == 0
None == [kind |-> "none", v |-> 0]
Date(d) == [kind |-> "date", v |-> d]
DateTime(t) == [kind |-> "datetime", v |-> t]

\* DateField.to_python as applied by save: a datetime is cut to its date.
ToDate(val) == IF val.kind = "datetime" THEN val.v \div TicksPerDay ELSE val.v

(***************************************************************************)
(* Enumerations.                                                           *)
(***************************************************************************)
Club_CATEGORY_RECREATIONAL == 0
Club_CATEGORY_PROFESSIONAL == 1
Club_CATEGORIES ==
    << <<Club_CATEGORY_RECREATIONAL, "Recreational">>,
       <<Club_CATEGORY_PROFESSIONAL, "Professional">> >>

Equipment_CATEGORY_RACKET == 0
Equipment_CATEGORY_BALL == 1
Equipment_CATEGORY_SHUTTLECOCK == 2
Equipment_CATEGORY_OTHER == 3
Equipment_CATEGORIES ==
    << <<Equipment_CATEGORY_RACKET, "Racket">>,
       <<Equipment_CATEGORY_BALL, "Ball">>,
       <<Equipment_CATEGORY_SHUTTLECOCK, "Shuttlecock">>,
       <<Equipment_CATEGORY_OTHER, "Other type">> >>

SPORT_BADMINTON == 0
SPORT_TENNIS == 1
SPORT_TABLE_TENNIS == 2
SPORT_SQUASH == 3
SPORT_ANOTHER == 4
BASIC_SPORTS ==
    << <<SPORT_BADMINTON, "Badminton">>,
       <<SPORT_TENNIS, "Tennis">>,
       <<SPORT_TABLE_TENNIS, "Table tennis">> >>
SPORTS ==
    BASIC_SPORTS \o << <<SPORT_SQUASH, "Squash">>,
                       <<SPORT_ANOTHER, "Another sport">> >>

ROLE_OWNER == 0
ROLE_FOUNDER == 1
ROLE_MEMBER == 2
ROLES ==
    << <<ROLE_OWNER, "Owner">>,
       <<ROLE_FOUNDER, "Founder">>,
       <<ROLE_MEMBER, "Member">> >>

\* The values a choices tuple declares.
ChoiceValues(choices) == {choices[i][1] : i \in 1 .. Len(choices)}

\* Model.get_FOO_display: the label of a declared value, else the value itself
\* as text.
Display(choices, value) ==
    IF value \in ChoiceValues(choices)
    THEN LET i == CHOOSE j \in 1 .. Len(choices) : choices[j][1] = value
         IN  choices[i][2]
    ELSE ToString(value)

(***************************************************************************)
(* Rows and lookups.                                                       *)
(***************************************************************************)
Row(table, pk) == CHOOSE r \in table : r.pk = pk
PksOf(table) == {r.pk : r \in table}
FreePks(table) == Pks \ PksOf(table)

\* The key an INSERT assigns: one not in use (NoPk when the model has none
\* left).
NewPk(table) ==
    IF FreePks(table) = {} THEN NoPk
    ELSE CHOOSE pk \in FreePks(table) : \A other \in FreePks(table) : pk <= other

(***************************************************************************)
(* Club.save                                                               *)
(***************************************************************************)
\* Mutant: the two fields are stamped on every save.
Club_save_stamp_every_save(self, now1, now2) ==
    [self EXCEPT
        !.foundation_date =
            IF self.foundation_date = None THEN DateTime(now1) ELSE @,
        !.last_update = DateTime(now2)]

\* Mutant: last_update is stamped as foundation_date is, only when the
\* caller left it unset.
Club_save_stamp_keep_supplied(self, now1, now2) ==
    IF self.pk = NoPk
    THEN [self EXCEPT
            !.foundation_date =
                IF self.foundation_date = None THEN DateTime(now1) ELSE @,
            !.last_update =
                IF self.last_update = None THEN DateTime(now2) ELSE @]
    ELSE self

\* Lines 71-74: the stamping of a new instance.  now1 and now2 are the two
\* readings of timezone.now().
Club_save_stamp(self, now1, now2) ==
    IF self.pk = NoPk
    THEN [self EXCEPT
            !.foundation_date =
                IF self.foundation_date = None THEN DateTime(now1) ELSE @,
            !.last_update = DateTime(now2)]
    ELSE self

\* Mutant: title without unique=True.
Club_title_conflict_unchecked(table, pk, title) == FALSE

\* The unique index on Club.title.
Club_title_conflict(table, pk, title) ==
    \E r \in table : r.title = title /\ r.pk # pk

\* The NOT NULL columns of Club.
Club_null_violation(self) ==
    self.foundation_date = None \/ self.last_update = None

\* The row written for an instance: the column values after the fields'
\* preparation.
Club_row(self, pk) ==
    [pk |-> pk, title |-> self.title, category |-> self.category,
     foundation_date |-> ToDate(self.foundation_date),
     last_update |-> self.last_update.v]

\* The instance loaded from a row.
Club_from_row(r) ==
    [pk |-> r.pk, title |-> r.title, category |-> r.category,
     foundation_date |-> Date(r.foundation_date),
     last_update |-> DateTime(r.last_update)]

\* Line 75, super().save(): an UPDATE of the row with the instance's pk, an
\* INSERT when there is none; the constraints of the table decide.
\* The result is <<outcome, table, pk>>.
Club_super_save(table, self, newpk) ==
    LET pk == IF self.pk = NoPk THEN newpk ELSE self.pk
    IN  IF Club_null_violation(self) \/ Club_title_conflict(table, pk, self.title)
        THEN <<"IntegrityError", table, NoPk>>
        ELSE <<"ok", {r \in table : r.pk # pk} \cup {Club_row(self, pk)}, pk>>

\* Whether save reads the clock a second time, some ticks after the first.
Club_save_reads_twice(self) ==
    self.pk = NoPk /\ self.foundation_date = None

\* Club.save of the instance `self`, `elapsed` ticks passing between the two
\* readings of the clock, `newpk` the key the table assigns on INSERT.
Club_save(op, self, elapsed, newpk) ==
    LET now1 == clock
        now2 == IF Club_save_reads_twice(self) THEN clock + elapsed ELSE clock
        stamped == Club_save_stamp(self, now1, now2)
        out == Club_super_save(clubs, stamped, newpk)
    IN  /\ now2 <= MaxClock
        /\ out[1] = "ok" => out[3] # NoPk
        /\ clock' = now2
        /\ clubs' = out[2]
        /\ last' = [op |-> op, arg |-> self, result |-> out[1], pk |-> out[3],
                    at |-> now1]
        /\ UNCHANGED <<profiles, manufacturers, equipments, members>>

\* Club(...).save() of a newly constructed instance.  Between two readings
\* of the clock no time or one tick passes.
CreateClub(self) ==
    \E elapsed \in (IF Club_save_reads_twice(self) THEN 0 .. 1 ELSE {0}) :
        Club_save("Club.create", self, elapsed, NewPk(clubs))

\* club = Club.objects.get(pk=pk); club.title = title;
\* club.category = category; club.save()
EditClub(pk, title, category) ==
    /\ pk \in PksOf(clubs)
    /\ Club_save("Club.edit",
                 [Club_from_row(Row(clubs, pk)) EXCEPT
                    !.title = title, !.category = category],
                 0, NoPk)

(***************************************************************************)
(* Deletion.  Every ForeignKey of the application is on_delete=CASCADE:    *)
(* the rows that refer to a deleted row are deleted with it.               *)
(***************************************************************************)
\* Equipment.club, on_delete=models.CASCADE
Equipment_club_on_delete(table, pk) == {e \in table : e.club # pk}

\* Mutant: on_delete=models.SET_NULL for the optional reference.
Equipment_manufacturer_set_null(table, pk) ==
    {IF e.manufacturer = pk THEN [e EXCEPT !.manufacturer = NoPk] ELSE e :
        e \in table}

\* Equipment.manufacturer, null=True, on_delete=models.CASCADE
Equipment_manufacturer_on_delete(table, pk) ==
    {e \in table : e.manufacturer # pk}

\* Member.profile, on_delete=models.CASCADE
Member_profile_on_delete(table, pk) == {m \in table : m.profile # pk}

\* Member.club, on_delete=models.CASCADE
Member_club_on_delete(table, pk) == {m \in table : m.club # pk}

\* The record of a delete; cascaded is the number of dependent rows that
\* went with the row.
Deleted(op, pk, cascaded) ==
    [op |-> op, arg |-> [pk |-> pk], result |-> "ok", pk |-> pk, at |-> clock,
     cascaded |-> cascaded]

DeleteClub(pk) ==
    /\ pk \in PksOf(clubs)
    /\ clubs' = {c \in clubs : c.pk # pk}
    /\ equipments' = Equipment_club_on_delete(equipments, pk)
    /\ members' = Member_club_on_delete(members, pk)
    /\ last' = Deleted("Club.delete", pk,
                       Cardinality(equipments \ equipments')
                       + Cardinality(members \ members'))
    /\ UNCHANGED <<clock, profiles, manufacturers>>

DeleteProfile(pk) ==
    /\ pk \in PksOf(profiles)
    /\ profiles' = {p \in profiles : p.pk # pk}
    /\ members' = Member_profile_on_delete(members, pk)
    /\ last' = Deleted("Profile.delete", pk, Cardinality(members \ members'))
    /\ UNCHANGED <<clock, clubs, manufacturers, equipments>>

DeleteManufacturer(pk) ==
    /\ pk \in PksOf(manufacturers)
    /\ manufacturers' = {m \in manufacturers : m.pk # pk}
    /\ equipments' = Equipment_manufacturer_on_delete(equipments, pk)
    /\ last' = Deleted("Manufacturer.delete", pk,
                       Cardinality(equipments \ equipments'))
    /\ UNCHANGED <<clock, clubs, profiles, members>>

DeleteEquipment(pk) ==
    /\ pk \in PksOf(equipments)
    /\ equipments' = {e \in equipments : e.pk # pk}
    /\ last' = Deleted("Equipment.delete", pk, 0)
    /\ UNCHANGED <<clock, clubs, profiles, manufacturers, members>>

DeleteMember(pk) ==
    /\ pk \in PksOf(members)
    /\ members' = {m \in members : m.pk # pk}
    /\ last' = Deleted("Member.delete", pk, 0)
    /\ UNCHANGED <<clock, clubs, profiles, manufacturers, equipments>>

(***************************************************************************)
(* Saves of the models that do not override save.  The result of a save is *)
(* <<outcome, table, pk>>.                                                 *)
(***************************************************************************)
\* Profile.Meta.unique_together
Profile_conflict(table, pk, self) ==
    \E r \in table : /\ r.pk # pk
                     /\ r.first_name = self.first_name
                     /\ r.last_name = self.last_name
                     /\ r.birth_date = self.birth_date

Profile_save(table, self, newpk) ==
    IF Profile_conflict(table, newpk, self)
    THEN <<"IntegrityError", table, NoPk>>
    ELSE <<"ok", table \cup {[self EXCEPT !.pk = newpk]}, newpk>>

\* The unique index on Manufacturer.company_name.
Manufacturer_conflict(table, pk, self) ==
    \E r \in table : r.pk # pk /\ r.company_name = self.company_name

Manufacturer_save(table, self, newpk) ==
    IF Manufacturer_conflict(table, newpk, self)
    THEN <<"IntegrityError", table, NoPk>>
    ELSE <<"ok", table \cup {[self EXCEPT !.pk = newpk]}, newpk>>

\* The foreign keys of Equipment: club is required, manufacturer may be NULL.
Equipment_fk_violation(self) ==
    \/ self.club \notin PksOf(clubs)
    \/ self.manufacturer # NoPk /\ self.manufacturer \notin PksOf(manufacturers)

Equipment_save(table, self, newpk) ==
    IF Equipment_fk_violation(self)
    THEN <<"IntegrityError", table, NoPk>>
    ELSE <<"ok", table \cup {[self EXCEPT !.pk = newpk]}, newpk>>

\* The foreign keys of Member: both are required.
Member_fk_violation(self) ==
    self.profile \notin PksOf(profiles) \/ self.club \notin PksOf(clubs)

\* Mutant: a Profile may be a Member once (unique on profile alone).
Member_conflict_profile_only(table, pk, self) ==
    \E r \in table : r.pk # pk /\ r.profile = self.profile

\* Member.Meta.unique_together
Member_conflict(table, pk, self) ==
    \E r \in table :
        r.pk # pk /\ r.profile = self.profile /\ r.club = self.club

\* An INSERT when the instance has no pk, else an UPDATE of its row.
Member_save(table, self, newpk) ==
    LET pk == IF self.pk = NoPk THEN newpk ELSE self.pk
    IN  IF Member_fk_violation(self) \/ Member_conflict(table, pk, self)
        THEN <<"IntegrityError", table, NoPk>>
        ELSE <<"ok", {r \in table : r.pk # pk} \cup {[self EXCEPT !.pk = pk]},
               pk>>

Saved(op, self, out) ==
    [op |-> op, arg |-> self, result |-> out[1], pk |-> out[3], at |-> clock]

CreateProfile(self) ==
    LET newpk == NewPk(profiles)
        out == Profile_save(profiles, self, newpk)
    IN  /\ out[1] = "ok" => out[3] # NoPk
        /\ profiles' = out[2]
        /\ last' = Saved("Profile.create", self, out)
        /\ UNCHANGED <<clock, clubs, manufacturers, equipments, members>>

CreateManufacturer(self) ==
    LET newpk == NewPk(manufacturers)
        out == Manufacturer_save(manufacturers, self, newpk)
    IN  /\ out[1] = "ok" => out[3] # NoPk
        /\ manufacturers' = out[2]
        /\ last' = Saved("Manufacturer.create", self, out)
        /\ UNCHANGED <<clock, clubs, profiles, equipments, members>>

CreateEquipment(self) ==
    LET newpk == NewPk(equipments)
        out == Equipment_save(equipments, self, newpk)
    IN  /\ out[1] = "ok" => out[3] # NoPk
        /\ equipments' = out[2]
        /\ last' = Saved("Equipment.create", self, out)
        /\ UNCHANGED <<clock, clubs, profiles, manufacturers, members>>

CreateMember(self) ==
    LET newpk == NewPk(members)
        out == Member_save(members, self, newpk)
    IN  /\ out[1] = "ok" => out[3] # NoPk
        /\ members' = out[2]
        /\ last' = Saved("Member.create", self, out)
        /\ UNCHANGED <<clock, clubs, profiles, manufacturers, equipments>>

\* member = Member.objects.get(pk=pk); member.profile = profile;
\* member.club = club; member.save()
EditMember(pk, profile, club) ==
    /\ pk \in PksOf(members)
    /\ LET self == [Row(members, pk) EXCEPT
                      !.profile = profile, !.club = club]
           out == Member_save(members, self, NoPk)
       IN  /\ members' = out[2]
           /\ last' = Saved("Member.edit", self, out)
           /\ UNCHANGED <<clock, clubs, profiles, manufacturers, equipments>>

\* Time passes.
Tick ==
    /\ clock < MaxClock
    /\ clock' = clock + 1
    /\ last' = [op |-> "tick", arg |-> [pk |-> NoPk], result |-> "ok",
                pk |-> NoPk, at |-> clock]
    /\ UNCHANGED <<clubs, profiles, manufacturers, equipments, members>>

(***************************************************************************)
(* Display representations.  An OrderedDict is a sequence of <<key, value>>*)
(* pairs; a nested mapping is such a sequence in the value's place.        *)
(***************************************************************************)
\* The separator of the display strings, U+203A between spaces, written in
\* ASCII.
Separator == " > "

\* tpl.format_local_date: a date prints as its day, a datetime as its day and
\* the time of day.
format_local_date(val) ==
    IF val.kind = "datetime"
    THEN "day" \o ToString(val.v \div TicksPerDay)
               \o " tick" \o ToString(val.v % TicksPerDay)
    ELSE "day" \o ToString(val.v)

Keys(d) == [i \in 1 .. Len(d) |-> d[i][1]]
Values(d) == [i \in 1 .. Len(d) |-> d[i][2]]
HasKey(d, key) == \E i \in 1 .. Len(d) : d[i][1] = key
Get(d, key) == d[CHOOSE i \in 1 .. Len(d) : d[i][1] = key][2]

\* separator.join(strings)
RECURSIVE Join(_, _)
Join(sep, strings) ==
    IF Len(strings) = 0 THEN ""
    ELSE IF Len(strings) = 1 THEN strings[1]
    ELSE strings[1] \o sep \o Join(sep, Tail(strings))

Profile_get_str_fields(self) ==
    << <<"first_name", self.first_name>>,
       <<"last_name", self.last_name>>,
       <<"birth_date", format_local_date(Date(self.birth_date))>> >>

Profile_str(self) == Join(" ", <<self.first_name, self.last_name>>)

Manufacturer_get_str_fields(self) ==
    << <<"company_name", self.company_name>> >>
    \o << <<"direct_shipping",
            IF self.direct_shipping THEN "Yes (direct)" ELSE "No (remote)">> >>

Manufacturer_str(self) ==
    Join(Separator, Values(Manufacturer_get_str_fields(self)))

\* tpl.reverse: the URL the URL configuration gives to a view name and its
\* argument.
reverse(viewname, pk) == "/" \o viewname \o "/" \o ToString(pk) \o "/"

Club_get_absolute_url(self) ==
    [url |-> reverse("club_detail", self.pk), text |-> self.title]

Club_get_str_fields(self) ==
    << <<"title", self.title>>,
       <<"category", Display(Club_CATEGORIES, self.category)>>,
       <<"foundation_date", format_local_date(Date(self.foundation_date))>>,
       <<"last_update", format_local_date(DateTime(self.last_update))>> >>

Club_str(self) == Join(Separator, Values(Club_get_str_fields(self)))

Equipment_get_absolute_url(self) ==
    [url |-> reverse("equipment_detail", self.pk), text |-> self.inventory_name]

\* Mutant: an unset manufacturer is shown as an empty value.
Equipment_get_str_fields_empty_manufacturer(self) ==
    << <<"club", Club_get_str_fields(Row(clubs, self.club))>>,
       <<"manufacturer",
         IF self.manufacturer # NoPk
         THEN Manufacturer_get_str_fields(Row(manufacturers, self.manufacturer))
         ELSE <<>> >>,
       <<"inventory_name", self.inventory_name>>,
       <<"category", Display(Equipment_CATEGORIES, self.category)>> >>

\* self.club and self.manufacturer are the related rows.
Equipment_get_str_fields(self) ==
    LET str_fields == << <<"club", Club_get_str_fields(Row(clubs, self.club))>> >>
        with_manufacturer ==
            IF self.manufacturer # NoPk
            THEN str_fields \o
                 << <<"manufacturer",
                      Manufacturer_get_str_fields(
                          Row(manufacturers, self.manufacturer))>> >>
            ELSE str_fields
    IN  with_manufacturer
        \o << <<"inventory_name", self.inventory_name>> >>
        \o << <<"category", Display(Equipment_CATEGORIES, self.category)>> >>

Member_get_str_fields(self) ==
    << <<"profile", Profile_get_str_fields(Row(profiles, self.profile))>>,
       <<"club", Club_get_str_fields(Row(clubs, self.club))>>,
       <<"last_visit", format_local_date(DateTime(self.last_visit))>>,
       <<"plays", Display(SPORTS, self.plays)>>,
       <<"role", Display(ROLES, self.role)>>,
       <<"is_endorsed", IF self.is_endorsed THEN "endorsed" ELSE "unofficial">> >>

\* The keys of Equipment's and Member's mappings whose values are mappings.
IsNested(key) == key \in {"club", "manufacturer", "profile"}

\* Mutant: flatten_dict called without enclosure_fmt=None, a nested mapping's
\* text is enclosed in parentheses.
flatten_dict_enclosed(d) ==
    [i \in 1 .. Len(d) |->
        <<d[i][1],
          IF IsNested(d[i][1])
          THEN "(" \o Join(Separator, Values(d[i][2])) \o ")"
          ELSE d[i][2]>>]

\* tpl.flatten_dict(d, enclosure_fmt=None): a nested mapping becomes its
\* values joined by the separator, any other value is kept.
flatten_dict(d) ==
    [i \in 1 .. Len(d) |->
        <<d[i][1],
          IF IsNested(d[i][1]) THEN Join(Separator, Values(d[i][2]))
                               ELSE d[i][2]>>]

\* tpl.str_dict(d): as flatten_dict, a nested mapping's text enclosed in
\* parentheses, and the values joined.
str_dict(d) ==
    Join(Separator,
         [i \in 1 .. Len(d) |->
            IF IsNested(d[i][1])
            THEN "(" \o Join(Separator, Values(d[i][2])) \o ")"
            ELSE d[i][2]])

Equipment_str(self) == str_dict(Equipment_get_str_fields(self))

Member_get_absolute_url(self) ==
    LET str_fields == flatten_dict(Member_get_str_fields(self))
    IN  [url |-> reverse("member_detail", self.pk),
         text |-> Join(" / ", <<Get(str_fields, "profile"),
                                Get(str_fields, "club")>>)]

Member_str(self) == str_dict(Member_get_str_fields(self))

(***************************************************************************)
(* djk_sample/urls.py.  A route is a name, a view and a pattern; a pattern *)
(* is the literal tokens it starts with and what may follow them.  A path  *)
(* is a sequence of tokens: "/" or a segment.                              *)
(***************************************************************************)
Route(name, view, prefix, rest) ==
    [name |-> name, view |-> view, prefix |-> prefix, rest |-> rest]

\* Lines 21-32.
urlpatterns_base ==
    << Route("club_main_page", "club_app.views.main_page", <<>>, "end"),
       Route("accounts", "django_jinja_knockout._allauth.urls",
             <<"accounts", "/">>, "any"),
       Route("club_create", "ClubCreate", <<"club-create", "/">>, "end"),
       Route("manufacturer_fk_widget_grid", "ManufacturerFkWidgetGrid",
             <<"manufacturer-fk-widget-grid">>, "action") >>

\* Lines 34-41.
urlpatterns_jsi18n ==
    << Route("jsi18n", "django.views.i18n.javascript_catalog",
             <<"jsi18n", "/">>, "end") >>

\* staticfiles_urlpatterns(): no route unless DEBUG is on and STATIC_URL is
\* a local prefix.
staticfiles_urlpatterns(debug, static_url) ==
    IF ~debug \/ static_url.remote
    THEN <<>>
    ELSE << Route("static", "django.contrib.staticfiles.views.serve",
                  static_url.prefix, "any") >>

\* Lines 43-45.
urlpatterns_static(debug, static_url) ==
    IF debug THEN staticfiles_urlpatterns(debug, static_url) ELSE <<>>

\* Mutant: the catalog route added inside `if settings.DEBUG`.
urls_module_jsi18n_in_debug(debug, static_url) ==
    urlpatterns_base
    \o (IF debug THEN urlpatterns_jsi18n ELSE <<>>)
    \o urlpatterns_static(debug, static_url)

\* The whole module.
urls_module(debug, static_url) ==
    urlpatterns_base \o urlpatterns_jsi18n
                     \o urlpatterns_static(debug, static_url)

\* The import of djk_sample.urls.
ImportUrls ==
    /\ pc = "start"
    /\ urlpatterns' = urls_module(DEBUG, STATIC_URL)
    /\ pc' = "done"
    /\ UNCHANGED <<DEBUG, STATIC_URL, resolved>>
    /\ UNCHANGED dbvars

\* \w+
IsWord(token) == token \in {"list", "accounts", "static", "jsi18n", "login"}

StartsWith(path, prefix) ==
    /\ Len(path) >= Len(prefix)
    /\ SubSeq(path, 1, Len(prefix)) = prefix

\* (?P<action>/?\w*)/$ : an optional slash, an optional word, a slash.
IsAction(rest) ==
    \/ rest = <<"/">>
    \/ rest = <<"/", "/">>
    \/ Len(rest) = 2 /\ IsWord(rest[1]) /\ rest[2] = "/"
    \/ Len(rest) = 3 /\ rest[1] = "/" /\ IsWord(rest[2]) /\ rest[3] = "/"

Matches(route, path) ==
    /\ StartsWith(path, route.prefix)
    /\ LET rest == SubSeq(path, Len(route.prefix) + 1, Len(path))
       IN  CASE route.rest = "end" -> rest = <<>>
             [] route.rest = "any" -> TRUE
             [] route.rest = "action" -> IsAction(rest)

\* The resolver: the first route of urlpatterns that matches.
Resolve404 == "Resolver404"
resolve(patterns, path) ==
    IF \E i \in 1 .. Len(patterns) : Matches(patterns[i], path)
    THEN patterns[CHOOSE i \in 1 .. Len(patterns) :
                    /\ Matches(patterns[i], path)
                    /\ \A j \in 1 .. i - 1 : ~Matches(patterns[j], path)].name
    ELSE Resolve404

\* A request for a path.
Request(path) ==
    /\ pc = "done"
    /\ resolved' = [path |-> path, name |-> resolve(urlpatterns, path)]
    /\ UNCHANGED <<DEBUG, STATIC_URL, urlpatterns, pc>>
    /\ UNCHANGED dbvars

(***************************************************************************)
(* Inputs.                                                                 *)
(***************************************************************************)
Titles == {"Riverside", "Hilltop"}

\* An integer that no CATEGORIES, SPORTS or ROLES tuple declares.
UndeclaredCategory == 7

\* The instances the club specification saves: with and without a key, with
\* and without the two dates, with declared and undeclared categories.
ClubInstances ==
    [pk : {NoPk} \cup Pks,
     title : Titles,
     category : {Club_CATEGORY_RECREATIONAL, UndeclaredCategory},
     foundation_date : {None, Date(0)},
     last_update : {None, DateTime(0)}]

\* The instances the database specification saves.
NewClubs ==
    [pk : {NoPk}, title : Titles, category : {Club_CATEGORY_RECREATIONAL},
     foundation_date : {Date(0)}, last_update : {None}]

NewProfiles ==
    [pk : {NoPk}, first_name : {"Ann"}, last_name : {"Lee", "Ray"},
     birth_date : {0}]

NewManufacturers ==
    {[pk |-> NoPk, company_name |-> "Yonex", direct_shipping |-> TRUE],
     [pk |-> NoPk, company_name |-> "Acme", direct_shipping |-> FALSE]}

NewEquipments ==
    [pk : {NoPk}, club : Pks, manufacturer : {NoPk} \cup Pks,
     inventory_name : {"Racket A"}, category : {Equipment_CATEGORY_RACKET}]

NewMembers ==
    [pk : {NoPk}, profile : Pks, club : Pks, last_visit : {0},
     plays : {SPORT_BADMINTON}, role : {ROLE_MEMBER}, note : {""},
     is_endorsed : {FALSE}]

\* One sportsman only, for the specification of all five tables.
OneProfile == {self \in NewProfiles : self.last_name = "Lee"}

OneManufacturer == {self \in NewManufacturers : self.company_name = "Yonex"}

StaticUrls ==
    {[prefix |-> <<"static", "/">>, remote |-> FALSE],
     [prefix |-> <<"assets", "/">>, remote |-> FALSE],
     [prefix |-> <<"cdn", "static", "/">>, remote |-> TRUE]}

Paths ==
    { <<>>, <<"accounts", "/">>, <<"accounts", "/", "login", "/">>,
      <<"club-create", "/">>, <<"club-create">>,
      <<"manufacturer-fk-widget-grid", "/">>,
      <<"manufacturer-fk-widget-grid", "/", "list", "/">>,
      <<"manufacturer-fk-widget-grid", "list", "/">>,
      <<"manufacturer-fk-widget-grid", "/", "/">>,
      <<"manufacturer-fk-widget-grid">>,
      <<"manufacturer-fk-widget-grid", "/", "a.b", "/">>,
      <<"jsi18n", "/">>, <<"jsi18n">>, <<"jsi18n", "/", "list", "/">>,
      <<"static", "/">>, <<"static", "/", "a.b">>,
      <<"static", "/", "list", "/", "a.b">>,
      <<"assets", "/", "a.b">>, <<"admin", "/">> }

(***************************************************************************)
(* Specifications.                                                         *)
(***************************************************************************)
NoOp == [op |-> "none", arg |-> [pk |-> NoPk], result |-> "ok", pk |-> NoPk,
         at |-> 0]

InitDb ==
    /\ clock = 0
    /\ clubs = {}
    /\ profiles = {}
    /\ manufacturers = {}
    /\ equipments = {}
    /\ members = {}
    /\ last = NoOp

InitUrls ==
    /\ urlpatterns = <<>>
    /\ pc = "start"
    /\ resolved = [path |-> <<>>, name |-> "none"]

\* The database of a deployment: DEBUG off, static files under /static/.
Init ==
    /\ InitDb
    /\ InitUrls
    /\ DEBUG = FALSE
    /\ STATIC_URL = [prefix |-> <<"static", "/">>, remote |-> FALSE]

\* The five tables.
Next ==
    \/ \E self \in NewClubs : CreateClub(self) /\ UNCHANGED urlvars
    \/ \E self \in OneProfile : CreateProfile(self) /\ UNCHANGED urlvars
    \/ \E self \in OneManufacturer :
            CreateManufacturer(self) /\ UNCHANGED urlvars
    \/ \E self \in NewEquipments : CreateEquipment(self) /\ UNCHANGED urlvars
    \/ \E self \in NewMembers : CreateMember(self) /\ UNCHANGED urlvars
    \/ \E pk \in Pks : DeleteClub(pk) /\ UNCHANGED urlvars
    \/ \E pk \in Pks : DeleteProfile(pk) /\ UNCHANGED urlvars
    \/ \E pk \in Pks : DeleteManufacturer(pk) /\ UNCHANGED urlvars
    \/ \E pk \in Pks : DeleteEquipment(pk) /\ UNCHANGED urlvars
    \/ \E pk \in Pks : DeleteMember(pk) /\ UNCHANGED urlvars

Spec == Init /\ [][Next]_vars

\* Clubs, sportsmen and memberships.
NextMember ==
    \/ \E self \in NewClubs : CreateClub(self) /\ UNCHANGED urlvars
    \/ \E self \in NewProfiles : CreateProfile(self) /\ UNCHANGED urlvars
    \/ \E self \in NewMembers : CreateMember(self) /\ UNCHANGED urlvars
    \/ \E pk \in Pks, profile \in Pks, club \in Pks :
            EditMember(pk, profile, club) /\ UNCHANGED urlvars
    \/ \E pk \in Pks : DeleteClub(pk) /\ UNCHANGED urlvars
    \/ \E pk \in Pks : DeleteProfile(pk) /\ UNCHANGED urlvars
    \/ \E pk \in Pks : DeleteMember(pk) /\ UNCHANGED urlvars

SpecMember == Init /\ [][NextMember]_vars

\* The Club table alone, with the clock.
NextClub ==
    \/ Tick /\ UNCHANGED urlvars
    \/ \E self \in ClubInstances : CreateClub(self) /\ UNCHANGED urlvars
    \/ \E pk \in Pks, title \in Titles,
          category \in {Club_CATEGORY_RECREATIONAL, Club_CATEGORY_PROFESSIONAL} :
            EditClub(pk, title, category) /\ UNCHANGED urlvars
    \/ \E pk \in Pks : DeleteClub(pk) /\ UNCHANGED urlvars

SpecClub == Init /\ [][NextClub]_vars

\* The URL configuration under every setting.
InitSettings ==
    /\ InitDb
    /\ InitUrls
    /\ DEBUG \in BOOLEAN
    /\ STATIC_URL \in StaticUrls

NextUrls ==
    \/ ImportUrls
    \/ \E path \in Paths : Request(path)

SpecUrls == InitSettings /\ [][NextUrls]_vars

(***************************************************************************)
(* Properties.                                                             *)
(***************************************************************************)

\* No two stored Clubs have the same title.
C1_TitlesUnique == \A a, b \in clubs : a.title = b.title => a = b

\* A step that saves a new Club under a stored title.
C1_DuplicateInsertStep ==
    ( /\ last'.op = "Club.create"
      /\ last'.arg.pk = NoPk
      /\ \E c \in clubs : c.title = last'.arg.title )
    => (last'.result = "IntegrityError" /\ clubs' = clubs)

\* C1 (SpecClub): no two stored Clubs have the same title, and a save of a
\* new Club whose title is already stored ends with IntegrityError and
\* leaves the Club table as it was.
C1_UniqueTitle == []C1_TitlesUnique /\ [][C1_DuplicateInsertStep]_vars

\* A complete new Club was refused because its title is that of a stored one.
C1_Witness ==
    /\ last.op = "Club.create"
    /\ last.arg.pk = NoPk
    /\ last.arg.foundation_date # None
    /\ last.result = "IntegrityError"
    /\ \E c \in clubs : c.title = last.arg.title
    /\ Cardinality(clubs) = 2

\* Every reference of an Equipment or a Member is to a stored row.
C2_NoOrphans ==
    /\ \A e \in equipments :
          /\ e.club \in PksOf(clubs)
          /\ e.manufacturer # NoPk => e.manufacturer \in PksOf(manufacturers)
    /\ \A m \in members :
          m.profile \in PksOf(profiles) /\ m.club \in PksOf(clubs)

\* A step that deletes a Club, a Profile or a Manufacturer.
C2_DeleteStep ==
    /\ last'.op = "Club.delete" =>
          /\ last'.result = "ok"
          /\ clubs' = {c \in clubs : c.pk # last'.pk}
          /\ equipments' = {e \in equipments : e.club # last'.pk}
          /\ members' = {m \in members : m.club # last'.pk}
          /\ UNCHANGED <<profiles, manufacturers>>
    /\ last'.op = "Profile.delete" =>
          /\ last'.result = "ok"
          /\ profiles' = {r \in profiles : r.pk # last'.pk}
          /\ members' = {m \in members : m.profile # last'.pk}
          /\ UNCHANGED <<clubs, manufacturers, equipments>>
    /\ last'.op = "Manufacturer.delete" =>
          /\ last'.result = "ok"
          /\ manufacturers' = {r \in manufacturers : r.pk # last'.pk}
          /\ equipments' = {e \in equipments : e.manufacturer # last'.pk}
          /\ UNCHANGED <<clubs, profiles, members>>

\* C2 (Spec): no Equipment or Member row refers to a row that is not
\* stored; a delete of a Club, a Profile or a Manufacturer succeeds, removes
\* the row and exactly the rows that refer to it, and changes nothing else.
C2_CascadeDelete == []C2_NoOrphans /\ [][C2_DeleteStep]_vars

\* A Manufacturer was deleted, an Equipment row went with it and another,
\* without a manufacturer, stayed.
C2_Witness ==
    /\ last.op = "Manufacturer.delete"
    /\ last.cascaded > 0
    /\ \E e \in equipments : e.manufacturer = NoPk

\* C3 (SpecClub): a Club created without a foundation_date has one creation
\* timestamp: the stored foundation_date is the date of the stored
\* last_update.
C3_OneCreationTimestamp ==
    ( /\ last.op = "Club.create"
      /\ last.result = "ok"
      /\ last.arg.pk = NoPk
      /\ last.arg.foundation_date = None )
    => LET row == Row(clubs, last.pk)
       IN  row.foundation_date = ToDate(DateTime(row.last_update))

\* A step that edits a stored Club.
C4_EditStep ==
    last'.op = "Club.edit" =>
        LET before == Row(clubs, last'.arg.pk)
            after == Row(clubs', last'.arg.pk)
        IN  /\ last'.arg.pk \in PksOf(clubs')
            /\ after.last_update = before.last_update
            /\ after.foundation_date = before.foundation_date

\* C4 (SpecClub): a save of a stored Club after an edit of its title or its
\* category leaves the stored foundation_date and last_update as they were.
C4_StampedOnce == [][C4_EditStep]_vars

\* A Club was edited after the clock had moved on from its creation.
C4_Witness ==
    /\ last.op = "Club.edit"
    /\ last.result = "ok"
    /\ Row(clubs, last.pk).last_update < clock
    /\ Row(clubs, last.pk).category = Club_CATEGORY_PROFESSIONAL

\* No two stored Members have the same (profile, club).
C5_PairsUnique ==
    \A a, b \in members :
        (a.profile = b.profile /\ a.club = b.club) => a = b

\* A step that saves a new Member.
C5_InsertStep ==
    last'.op = "Member.create" =>
        LET self == last'.arg
            stored == \E m \in members :
                         m.profile = self.profile /\ m.club = self.club
        IN  /\ stored => (last'.result = "IntegrityError" /\ members' = members)
            /\ ( /\ ~stored
                 /\ self.profile \in PksOf(profiles)
                 /\ self.club \in PksOf(clubs) )
               => ( /\ last'.result = "ok"
                    /\ members' = members \cup {[self EXCEPT !.pk = last'.pk]} )

\* C5 (SpecMember): no two stored Members have the same (profile, club); a
\* save of a new Member whose pair is stored ends with IntegrityError and
\* leaves the Member table as it was; a save of a new Member of a stored
\* Profile and a stored Club whose pair is not stored succeeds, whatever
\* other Members the Profile and the Club have.
C5_UniqueMembership == []C5_PairsUnique /\ [][C5_InsertStep]_vars

\* One Profile is a Member of two Clubs, and a second Member of the Profile
\* in one of them was refused.
C5_Witness ==
    /\ last.op = "Member.create"
    /\ last.result = "IntegrityError"
    /\ \E m \in members :
          m.profile = last.arg.profile /\ m.club = last.arg.club
    /\ \E a, b \in members : a.profile = b.profile /\ a.club # b.club

\* C6 (SpecClub): every stored enumerated field holds a value its choices
\* declare.
C6_EnumsDeclared ==
    /\ \A c \in clubs : c.category \in ChoiceValues(Club_CATEGORIES)
    /\ \A e \in equipments : e.category \in ChoiceValues(Equipment_CATEGORIES)
    /\ \A m \in members :
          m.plays \in ChoiceValues(SPORTS) /\ m.role \in ChoiceValues(ROLES)

C8_EquipmentFields ==
    \A e \in equipments :
        LET d == Equipment_get_str_fields(e)
            club == Row(clubs, e.club)
        IN  /\ HasKey(d, "manufacturer") <=> e.manufacturer # NoPk
            /\ Keys(d) = IF e.manufacturer = NoPk
                         THEN <<"club", "inventory_name", "category">>
                         ELSE <<"club", "manufacturer", "inventory_name",
                                "category">>
            /\ Keys(Get(d, "club")) =
                  <<"title", "category", "foundation_date", "last_update">>
            /\ Get(d, "club") = Club_get_str_fields(club)
            /\ Get(Get(d, "club"), "title") = club.title
            /\ e.manufacturer # NoPk =>
                  /\ Get(d, "manufacturer") =
                        Manufacturer_get_str_fields(
                            Row(manufacturers, e.manufacturer))
                  /\ Keys(Get(d, "manufacturer")) =
                        <<"company_name", "direct_shipping">>
            /\ Get(d, "inventory_name") = e.inventory_name

\* An Equipment with a manufacturer and one without are stored.
C8_Witness ==
    /\ \E e \in equipments :
          /\ e.manufacturer = NoPk
          /\ Len(Equipment_get_str_fields(e)) = 3
    /\ \E e \in equipments :
          /\ e.manufacturer # NoPk
          /\ Len(Equipment_get_str_fields(e)) = 4

\* The names of the routes of urlpatterns, in order.
RouteNames == [i \in 1 .. Len(urlpatterns) |-> urlpatterns[i].name]
HasRoute(name) == \E i \in 1 .. Len(urlpatterns) : urlpatterns[i].name = name

BaseRouteNames ==
    <<"club_main_page", "accounts", "club_create",
      "manufacturer_fk_widget_grid">>

\* C9 (SpecUrls), as claimed: the jsi18n and the static routes are in the
\* table only with DEBUG on; with DEBUG off the table is the four base routes.
C9_Jsi18nDebugOnly ==
    pc = "done" =>
        /\ (HasRoute("jsi18n") \/ HasRoute("static")) => DEBUG
        /\ ~DEBUG => RouteNames = BaseRouteNames

\* C9 (SpecUrls), amended: the static route is in the table only with DEBUG
\* on; the jsi18n route is in the table under every setting, and a request
\* for /jsi18n/ resolves to it; with DEBUG off the table is the four base
\* routes and the jsi18n route.
C9_StaticDebugOnly ==
    pc = "done" =>
        /\ HasRoute("static") => DEBUG
        /\ HasRoute("jsi18n")
        /\ resolved.path = <<"jsi18n", "/">> => resolved.name = "jsi18n"
        /\ ~DEBUG => RouteNames = BaseRouteNames \o <<"jsi18n">>

\* With DEBUG off a request for /jsi18n/ was resolved to the catalog.
C9_Witness ==
    /\ pc = "done"
    /\ ~DEBUG
    /\ resolved.path = <<"jsi18n", "/">>
    /\ resolved.name = "jsi18n"

\* C10 (SpecClub): the first save of a Club without a key stores a supplied
\* foundation_date as it is and the current time as last_update whatever the
\* caller supplied; a first save with a key supplied by the caller stores the
\* caller's two values, and fails when one of them is missing.
C10_FirstSave ==
    last.op = "Club.create" =>
        LET self == last.arg
        IN  /\ (last.result = "ok" /\ self.pk = NoPk) =>
                  /\ self.foundation_date # None =>
                        Row(clubs, last.pk).foundation_date
                            = self.foundation_date.v
                  /\ Row(clubs, last.pk).last_update = clock
            /\ (last.result = "ok" /\ self.pk # NoPk) =>
                  /\ last.pk = self.pk
                  /\ Row(clubs, last.pk).foundation_date
                        = self.foundation_date.v
                  /\ Row(clubs, last.pk).last_update = self.last_update.v
            /\ ( /\ self.pk # NoPk
                 /\ (self.foundation_date = None \/ self.last_update = None) )
               => last.result = "IntegrityError"

\* A new Club came with both dates; its last_update was replaced by the time
\* of the save, its foundation_date was kept.
C10_Witness ==
    /\ last.op = "Club.create"
    /\ last.result = "ok"
    /\ last.arg.pk = NoPk
    /\ last.arg.foundation_date = Date(0)
    /\ last.arg.last_update = DateTime(0)
    /\ Row(clubs, last.pk).last_update = MaxClock
    /\ Row(clubs, last.pk).foundation_date = 0

====
